---- MODULE Spec2Model ----
(***************************************************************************)
(* Model of the reply decoding of the Amplifier Research FP4036 field      *)
(* probe driver (pymeasure/instruments/ar/fp4036.py) and of the filename   *)
(* placeholder validator and completer                                     *)
(* (pymeasure/display/widgets/filename_widget.py).                         *)
(*                                                                         *)
(* A Python str is a sequence of one-character strings.  A Python value    *)
(* returned by a call is a record tagged by "type"; a raised exception is  *)
(* the value [type |-> "raise", exc |-> <exception class>].                *)
(***************************************************************************)
EXTENDS Integers, Sequences, FiniteSets, TLC

VARIABLES op, arg, ret, log,
          text, state, actions, fixed, wop,
          path, model

probeVars == <<op, arg, ret, log>>
widgetVars == <<text, state, actions, fixed, wop>>
completerVars == <<path, model>>
vars == <<op, arg, ret, log, text, state, actions, fixed, wop, path, model>>

(***************************************************************************)
(* Bounds of the explored inputs.                                          *)
(***************************************************************************)
\* longest command echo put in front of a reply body
MaxEchoLen == 4
\* longest text typed into the filename line edit
MaxLen == 4
\* longest text handed to the completer
MaxPathLen == 3

(***************************************************************************)
(* Python values.                                                          *)
(***************************************************************************)
Str(s) == [type |-> "str", s |-> s]
NoneVal == [type |-> "None"]
Raise(e) == [type |-> "raise", exc |-> e]
Dict(d) == [type |-> "dict", d |-> d]

Min(a, b) == IF a < b THEN a ELSE b

\* Python s[a:b] for 0 <= a, 0 <= b
Slice(s, a, b) == SubSeq(s, a + 1, Min(b, Len(s)))
\* Python s[a:]
From(s, a) == SubSeq(s, a + 1, Len(s))

Range(s) == {s[i] : i \in 1..Len(s)}

\* all sequences over S of length at most n
RECURSIVE SeqsUpTo(_, _)
SeqsUpTo(S, n) ==
    IF n = 0 THEN {<<>>}
    ELSE LET shorter == SeqsUpTo(S, n - 1)
         IN  shorter \cup {Append(s, c) : s \in {t \in shorter : Len(t) = n - 1}, c \in S}

(***************************************************************************)
(* float() and int() of a str.                                             *)
(***************************************************************************)
Digits == {"0", "1", "2", "3", "4", "5", "6", "7", "8", "9"}

DigitVal(c) ==
    CASE c = "0" -> 0 [] c = "1" -> 1 [] c = "2" -> 2 [] c = "3" -> 3
      [] c = "4" -> 4 [] c = "5" -> 5 [] c = "6" -> 6 [] c = "7" -> 7
      [] c = "8" -> 8 [] c = "9" -> 9

RECURSIVE DigitsVal(_)
DigitsVal(s) ==
    IF s = <<>> THEN 0
    ELSE DigitsVal(SubSeq(s, 1, Len(s) - 1)) * 10 + DigitVal(s[Len(s)])

\* str.strip() of the blanks
RECURSIVE Strip(_)
Strip(s) ==
    IF s = <<>> THEN s
    ELSE IF s[1] = " " THEN Strip(Tail(s))
    ELSE IF s[Len(s)] = " " THEN Strip(SubSeq(s, 1, Len(s) - 1))
    ELSE s

HasSign(s) == s # <<>> /\ s[1] \in {"+", "-"}
Unsigned(s) == IF HasSign(s) THEN Tail(s) ELSE s
SignOf(s) == IF s # <<>> /\ s[1] = "-" THEN -1 ELSE 1

IsDigits(s) == s # <<>> /\ Range(s) \subseteq Digits

\* int(s): [ok, val]
ParseInt(s) ==
    LET t == Strip(s)
        u == Unsigned(t)
    IN  IF IsDigits(u) THEN [ok |-> TRUE, val |-> SignOf(t) * DigitsVal(u)]
        ELSE [ok |-> FALSE, val |-> 0]

\* a decimal mantissa m * 10^e without trailing zeros in m
RECURSIVE Normal(_, _)
Normal(m, e) ==
    IF m = 0 THEN [mant |-> 0, exp |-> 0]
    ELSE IF m % 10 = 0 THEN Normal(m \div 10, e + 1)
    ELSE [mant |-> m, exp |-> e]

FirstIndex(s, C) ==
    IF \E i \in 1..Len(s) : s[i] \in C
    THEN CHOOSE i \in 1..Len(s) : s[i] \in C /\ \A j \in 1..(i - 1) : s[j] \notin C
    ELSE 0

\* float(s): [ok, val], val the decimal number read (no inf, nan, underscores)
ParseFloat(s) ==
    LET t == Strip(s)
        u == Unsigned(t)
        e == FirstIndex(u, {"e", "E"})
        m == IF e = 0 THEN u ELSE SubSeq(u, 1, e - 1)
        x == IF e = 0 THEN <<>> ELSE SubSeq(u, e + 1, Len(u))
        dot == FirstIndex(m, {"."})
        ip == IF dot = 0 THEN m ELSE SubSeq(m, 1, dot - 1)
        fp == IF dot = 0 THEN <<>> ELSE SubSeq(m, dot + 1, Len(m))
        mok == /\ Range(ip) \cup Range(fp) \subseteq Digits
               /\ Len(ip) + Len(fp) > 0
        xok == e = 0 \/ IsDigits(Unsigned(x))
        xv == IF e = 0 THEN 0 ELSE SignOf(x) * DigitsVal(Unsigned(x))
    IN  IF mok /\ xok
        THEN [ok |-> TRUE,
              val |-> LET n == Normal(DigitsVal(ip \o fp), xv - Len(fp))
                      IN  [mant |-> SignOf(t) * n.mant, exp |-> n.exp]]
        ELSE [ok |-> FALSE, val |-> [mant |-> 0, exp |-> 0]]

(***************************************************************************)
(* fp4036.py: the reply decoder.                                           *)
(***************************************************************************)
E01 == <<":", "E", "0", "1">>
E02 == <<":", "E", "0", "2">>
E03 == <<":", "E", "0", "3">>
E04 == <<":", "E", "0", "4">>
E05 == <<":", "E", "0", "5">>
E06 == <<":", "E", "0", "6">>

Msg(level, msg) == [level |-> level, msg |-> msg]

\* the records check_get_errors logs for an 18-character reply
StatusLog(reply) ==
    (IF Len(reply) = 18 /\ reply[14] = "O" THEN <<Msg("error", "Overrange")>> ELSE <<>>)
    \o (IF Len(reply) = 18 /\ reply[15] = "W" THEN <<Msg("warning", "Low battery")>> ELSE <<>>)
    \o (IF Len(reply) = 18 /\ reply[16] = "F" THEN <<Msg("error", "Battery failure")>> ELSE <<>>)

\* check_get_errors(reply): the str returned and the records logged
check_get_errors(reply) ==
    LET errlog(m) == [ret |-> reply, log |-> StatusLog(reply) \o <<Msg("error", m)>>]
    IN  IF reply = E01 THEN errlog("comunication error")
        ELSE IF reply = E02 THEN errlog("Buffer overflow")
        ELSE IF reply = E03 THEN errlog("Invalid command")
        ELSE IF reply = E04 THEN errlog("Invalid parameter")
        ELSE IF reply = E05 THEN errlog("Hardware error")
        ELSE IF reply = E06 THEN errlog("Parity error")
        ELSE IF reply = <<>> THEN errlog("No reply")
        ELSE [ret |-> From(reply, 2), log |-> StatusLog(reply)]

UnitMap ==
    (<<" ", "V", " ">> :> "V/m") @@ (<<"M", "W", "2">> :> "mW/cm^2")
    @@ (<<"K", "V", "2">> :> "(V/m)^2")

BatteryMap == ("N" :> "Safe") @@ ("W" :> "Low") @@ ("F" :> "Fail")

\* ("X" if v[13] == "E" else "") + ("Y" if v[14] == "E" else "") + ("Z" if ...)
AxisLetters(v) ==
    (IF v[14] = "E" THEN <<"X">> ELSE <<>>)
    \o (IF v[15] = "E" THEN <<"Y">> ELSE <<>>)
    \o (IF v[16] = "E" THEN <<"Z">> ELSE <<>>)

\* proccess_data(response): the value returned (or the exception raised)
proccess_data_ret(response) ==
    LET value == From(check_get_errors(response).ret, 2)
    IN  IF Len(value) < 8 THEN Str(value)
        ELSE IF Len(value) = 8 THEN
            IF Slice(value, 5, 8) \notin DOMAIN UnitMap THEN Raise("KeyError")
            ELSE Dict([field |-> Str(Slice(value, 0, 5)),
                       unit |-> UnitMap[Slice(value, 5, 8)]])
        ELSE IF Len(value) = 16 THEN
            IF Slice(value, 5, 8) \notin DOMAIN UnitMap THEN Raise("KeyError")
            ELSE IF value[13] \notin DOMAIN BatteryMap THEN Raise("KeyError")
            ELSE IF ~ParseFloat(value).ok THEN Raise("ValueError")
            ELSE IF ~ParseInt(Slice(value, 8, 11)).ok THEN Raise("ValueError")
            ELSE Dict([field |-> ParseFloat(value).val,
                       unit |-> UnitMap[Slice(value, 5, 8)],
                       recorder |-> ParseInt(Slice(value, 8, 11)).val,
                       overrange |-> (value[12] = "O"),
                       battery |-> BatteryMap[value[13]],
                       axis |-> AxisLetters(value)])
        ELSE NoneVal

proccess_data(response) ==
    [ret |-> proccess_data_ret(response), log |-> check_get_errors(response).log]

\* the search without re.IGNORECASE
HasLetterCaseSensitive(axis, lower, upper) == \E i \in 1..Len(axis) : axis[i] = lower

\* re.search(letter, axis, re.IGNORECASE)
HasLetter(axis, lower, upper) == \E i \in 1..Len(axis) : axis[i] \in {lower, upper}

ED(b) == IF b THEN <<"E">> ELSE <<"D">>

\* process_axis(axis)
process_axis(axis) ==
    IF Len(axis) > 3 THEN
        LET c == check_get_errors(axis)
        IN  IF Len(c.ret) = 16 THEN [ret |-> Str(AxisLetters(c.ret)), log |-> c.log]
            ELSE [ret |-> Raise("ValueError"), log |-> c.log]
    ELSE [ret |-> Str(ED(HasLetter(axis, "x", "X")) \o ED(HasLetter(axis, "y", "Y"))
                      \o ED(HasLetter(axis, "z", "Z"))),
          log |-> <<>>]

\* FP4036.get_data, on the reply self.ask("D2") gave
get_data_ret(reply) ==
    LET result == check_get_errors(reply).ret
    IN  IF Slice(result, 5, 8) \notin DOMAIN UnitMap THEN Raise("KeyError")
        ELSE IF Len(result) < 12 THEN Raise("IndexError")
        ELSE IF Len(result) < 13 THEN Raise("IndexError")
        ELSE IF result[13] \notin DOMAIN BatteryMap THEN Raise("KeyError")
        ELSE IF Len(result) < 16 THEN Raise("IndexError")
        ELSE IF ~ParseFloat(Slice(result, 0, 5)).ok THEN Raise("ValueError")
        ELSE IF ~ParseInt(Slice(result, 8, 11)).ok THEN Raise("ValueError")
        ELSE Dict([value |-> ParseFloat(Slice(result, 0, 5)).val,
                   unit |-> UnitMap[Slice(result, 5, 8)],
                   recorder |-> ParseInt(Slice(result, 8, 11)).val,
                   overrange |-> (result[12] = "O"),
                   battery |-> BatteryMap[result[13]],
                   axis |-> AxisLetters(result)])

get_data(reply) ==
    [ret |-> get_data_ret(reply), log |-> check_get_errors(reply).log]

(***************************************************************************)
(* The replies and axis strings the decoder is run on.                     *)
(***************************************************************************)
\* longest human axis string handed to process_axis
MaxAxisLen == 4

ErrorReplies == {E01, E02, E03, E04, E05, E06, <<>>}

\* the command echo in front of a body: ":D" when it has its two characters
Echo(n) == [i \in 1..n |-> IF i % 2 = 1 THEN ":" ELSE "D"]

Values == {<<"1", "2", ".", "3", "4">>, <<"1", ".", "0", "E", "1">>,
           <<"1", "2", ",", "3", "4">>}
UnitCodes == (DOMAIN UnitMap) \cup {<<"W", "/", "M">>}
Recorders == {<<"1", "2", "3">>, <<" ", "-", "7">>, <<"1", ".", "5">>}
OverrangeCodes == {"O", "N"}
BatteryCodes == (DOMAIN BatteryMap) \cup {"?"}
AxisCodes == {"E", "D"}

ShortBodies == {v \o u : v \in Values, u \in UnitCodes}
CutBodies == {b \o r : b \in ShortBodies, r \in Recorders}
LongBodies ==
    {b \o <<o, bt, x, y, z>> : b \in CutBodies, o \in OverrangeCodes,
                               bt \in BatteryCodes, x \in AxisCodes,
                               y \in AxisCodes, z \in AxisCodes}
Bodies == ShortBodies \cup CutBodies \cup LongBodies

RawReplies == ErrorReplies \cup {Echo(n) \o b : n \in 0..MaxEchoLen, b \in Bodies}

AxisChars == {"x", "y", "z", "X", "Y", "Z"}
HumanAxes == SeqsUpTo(AxisChars, MaxAxisLen)

(***************************************************************************)
(* The calls of the decoder.  arg is the string a caller holds; op, ret    *)
(* and log are the function called on it, what it returned or raised, and  *)
(* what it logged.                                                         *)
(***************************************************************************)
CheckGetErrors ==
    /\ op = "init"
    /\ arg \in RawReplies
    /\ op' = "check_get_errors"
    /\ ret' = Str(check_get_errors(arg).ret)
    /\ log' = check_get_errors(arg).log
    /\ UNCHANGED <<arg, widgetVars, completerVars>>

ProccessData ==
    /\ op = "init"
    /\ arg \in RawReplies
    /\ op' = "proccess_data"
    /\ ret' = proccess_data(arg).ret
    /\ log' = proccess_data(arg).log
    /\ UNCHANGED <<arg, widgetVars, completerVars>>

ProcessAxis ==
    /\ op = "init"
    /\ op' = "process_axis"
    /\ ret' = process_axis(arg).ret
    /\ log' = process_axis(arg).log
    /\ UNCHANGED <<arg, widgetVars, completerVars>>

GetData ==
    /\ op = "init"
    /\ arg \in RawReplies
    /\ op' = "get_data"
    /\ ret' = get_data(arg).ret
    /\ log' = get_data(arg).log
    /\ UNCHANGED <<arg, widgetVars, completerVars>>

WidgetInit ==
    /\ text = <<>>
    /\ state = "none"
    /\ actions = <<>>
    /\ fixed = <<>>
    /\ wop = "init"

CompleterInit ==
    /\ path = <<>>
    /\ model = <<>>

ProbeInit ==
    /\ op = "init"
    /\ arg \in RawReplies \cup HumanAxes
    /\ ret = NoneVal
    /\ log = <<>>
    /\ WidgetInit
    /\ CompleterInit

ProbeNext ==
    \/ CheckGetErrors
    \/ ProccessData
    \/ ProcessAxis
    \/ GetData

ProbeSpec == ProbeInit /\ [][ProbeNext]_vars

(***************************************************************************)
(* filename_widget.py: FilenameValidator.                                  *)
(***************************************************************************)
\* the characters typed: "d" and "t" spell the names, "/" is one of the
\* characters a filename may not hold
Chars == {"d", "t", "{", "}", ":", "/"}

\* self.placeholders: the names of the procedure's placeholders, then "date"
\* and "time" (written d and t)
placeholders == <<<<"d">>, <<"t">>>>

Braces == {"{", "}"}

\* first index i <= k <= Len(s) with s[k] in C, 0 when there is none
FirstFrom(s, i, C) ==
    IF \E k \in i..Len(s) : s[k] \in C
    THEN CHOOSE k \in i..Len(s) : s[k] \in C /\ \A j \in i..(k - 1) : s[j] \notin C
    ELSE 0

\* full_placeholder = {([^{}:]*)(:[^{}]*)?} tried at s[i] = "{": the index of
\* the closing brace of the match, 0 when it does not match there
FullEnd(s, i) ==
    LET j == FirstFrom(s, i + 1, {"{", "}", ":"})
    IN  IF j = 0 THEN 0
        ELSE IF s[j] = "}" THEN j
        ELSE IF s[j] = ":"
             THEN LET k == FirstFrom(s, j + 1, Braces)
                  IN  IF k # 0 /\ s[k] = "}" THEN k ELSE 0
        ELSE 0

\* the two groups of a match from the opening brace at i up to (not with) e
Groups(s, i, e) ==
    LET c == FirstFrom(s, i + 1, {":"})
    IN  IF c = 0 \/ c >= e
        THEN <<SubSeq(s, i + 1, e - 1), <<>>>>
        ELSE <<SubSeq(s, i + 1, c - 1), SubSeq(s, c, e - 1)>>

\* self.full_placeholder.findall(s), scanning from index i
RECURSIVE full_findall_from(_, _)
full_findall_from(s, i) ==
    IF i > Len(s) THEN <<>>
    ELSE IF s[i] = "{" /\ FullEnd(s, i) # 0
         THEN <<Groups(s, i, FullEnd(s, i))>> \o full_findall_from(s, FullEnd(s, i) + 1)
    ELSE full_findall_from(s, i + 1)

full_findall(s) == full_findall_from(s, 1)

\* self.full_placeholder.sub(rep, s), scanning from index i
RECURSIVE full_sub_from(_, _, _)
full_sub_from(s, rep, i) ==
    IF i > Len(s) THEN <<>>
    ELSE IF s[i] = "{" /\ FullEnd(s, i) # 0
         THEN rep \o full_sub_from(s, rep, FullEnd(s, i) + 1)
    ELSE <<s[i]>> \o full_sub_from(s, rep, i + 1)

full_sub(s, rep) == full_sub_from(s, rep, 1)

\* half_placeholder = {([^{}:]*)(:[^{}]*)?$ : the index of the opening brace of
\* its match in s, 0 when there is none (no line ends are typed)
HalfStart(s) ==
    IF \E i \in 1..Len(s) : s[i] = "{" /\ \A j \in (i + 1)..Len(s) : s[j] \notin Braces
    THEN CHOOSE i \in 1..Len(s) : s[i] = "{" /\ \A j \in (i + 1)..Len(s) : s[j] \notin Braces
    ELSE 0

\* self.half_placeholder.findall(s)
half_findall(s) ==
    IF HalfStart(s) = 0 THEN <<>> ELSE <<Groups(s, HalfStart(s), Len(s) + 1)>>

\* self.half_placeholder.sub(rep, s)
half_sub(s, rep) ==
    IF HalfStart(s) = 0 THEN s ELSE SubSeq(s, 1, HalfStart(s) - 1) \o rep

\* the characters valid_filename = ^[^<>:\"/\\|?*{}]*$ excludes
Denied == {"<", ">", ":", "\"", "/", "\\", "|", "?", "*", "{", "}"}

\* self.valid_filename.fullmatch(s)
valid_filename(s) == Range(s) \cap Denied = {}

plchldr_ == <<"_", "p", "l", "c", "h", "l", "d", "r", "_">>
plchldr == <<"_", "p", "l", "c", "h", "l", "d", "r">>

\* fixup that closes whatever it is given
fixup_always(input) == input \o <<"}">>

\* FilenameValidator.fixup(input)
fixup(input) ==
    IF half_findall(input) # <<>> THEN input \o <<"}">> ELSE input

\* the state validate(input, pos) determines
validate_state(input) ==
    LET test_input == half_sub(full_sub(input, plchldr_), plchldr)
    IN  IF ~valid_filename(test_input) THEN "Invalid"
        ELSE IF half_findall(input) # <<>> THEN "Intermediate"
        ELSE "Acceptable"

InList(x, list) == \E k \in 1..Len(list) : list[k] = x

\* the filter that also reads the format specifier
incorrect_with_spec(full_placeholders) ==
    SelectSeq(full_placeholders, LAMBDA p : ~InList(p[1] \o p[2], placeholders))

\* [p for p in full_placeholders if p[0] not in self.placeholders]
incorrect_placeholders(full_placeholders) ==
    SelectSeq(full_placeholders, LAMBDA p : ~InList(p[1], placeholders))

\* s.startswith(pat) at index i
StartsAt(s, pat, i) ==
    /\ i + Len(pat) - 1 <= Len(s)
    /\ SubSeq(s, i, i + Len(pat) - 1) = pat

\* s.replace(pat, rep) for a non-empty pat, scanning from index i
RECURSIVE replace_from(_, _, _, _)
replace_from(s, pat, rep, i) ==
    IF i > Len(s) THEN <<>>
    ELSE IF StartsAt(s, pat, i) THEN rep \o replace_from(s, pat, rep, i + Len(pat))
    ELSE <<s[i]>> \o replace_from(s, pat, rep, i + 1)

\* the loop over the incorrect placeholders that marks them in the input
RECURSIVE marked_input(_, _)
marked_input(input, incorrect) ==
    IF incorrect = <<>> THEN input
    ELSE LET p == incorrect[Len(incorrect)]
             placeholder == <<"{">> \o p[1] \o p[2] \o <<"}">>
         IN  replace_from(marked_input(input, SubSeq(incorrect, 1, Len(incorrect) - 1)),
                          placeholder,
                          <<"<b><font color='red'>">> \o placeholder \o <<"</font></b>">>,
                          1)

\* sep.join(names)
RECURSIVE Join(_, _)
Join(names, sep) ==
    IF names = <<>> THEN <<>>
    ELSE IF Len(names) = 1 THEN names[1]
    ELSE names[1] \o sep \o Join(Tail(names), sep)

\* the text act.setToolTip is given; its literal parts are single elements
ToolTip(input, incorrect) ==
    <<"<p style='white-space:pre'>",
      "The input filename contains placeholders with<br/>invalid variable names:<br/>",
      " - '">>
    \o Join([k \in 1..Len(incorrect) |-> incorrect[k][1]], <<"',<br/> - '">>)
    \o <<"'.", "<br/><br/>Received input:<br/>">>
    \o marked_input(input, incorrect)
    \o <<"</p>">>

Action(tip) == [icon |-> "SP_MessageBoxCritical", toolTip |-> tip]

\* the warning branch without the test of self.parent.actions()
warn_always_add(input, acts) ==
    LET incorrect == incorrect_placeholders(full_findall(input))
    IN  IF incorrect # <<>>
        THEN [raised |-> FALSE,
              actions |-> <<Action(ToolTip(input, incorrect))>> \o acts]
        ELSE IF acts # <<>>
             THEN IF Len(acts) # 1 THEN [raised |-> TRUE, actions |-> acts]
                  ELSE [raised |-> FALSE, actions |-> Tail(acts)]
        ELSE [raised |-> FALSE, actions |-> acts]

\* validate, "Control the warning for the invalid placeholders": the actions
\* of the parent afterwards, and whether the assertion failed
warn(input, acts) ==
    LET incorrect == incorrect_placeholders(full_findall(input))
        added == IF acts = <<>> THEN <<Action(<<>>)>> ELSE acts
    IN  IF incorrect # <<>>
        THEN [raised |-> FALSE,
              actions |-> <<[added[1] EXCEPT !.toolTip = ToolTip(input, incorrect)]>>
                          \o Tail(added)]
        ELSE IF acts # <<>>
             THEN IF Len(acts) # 1 THEN [raised |-> TRUE, actions |-> acts]
                  ELSE [raised |-> FALSE, actions |-> Tail(acts)]
        ELSE [raised |-> FALSE, actions |-> acts]

\* FilenameValidator.validate(input, pos): the state returned, or the
\* AssertionError raised, and the actions of the parent afterwards
validate(input, acts) ==
    [state |-> IF warn(input, acts).raised THEN "AssertionError" ELSE validate_state(input),
     actions |-> warn(input, acts).actions]

(***************************************************************************)
(* The line edit: text is what is typed, validated after every edit;       *)
(* fixed is what fixup made of it; state and actions are the result of the *)
(* last validate call and the actions of the line edit.                    *)
(***************************************************************************)
\* texts set as a whole
Pasted == {<<>>, <<"{", "}">>, <<"{", "d", "}">>, <<"{", "{", "}">>, <<"d", "/">>}

Validated(input) ==
    /\ text' = input
    /\ state' = validate(input, actions).state
    /\ actions' = validate(input, actions).actions
    /\ wop' = "validate"
    /\ fixed' = <<>>
    /\ UNCHANGED <<probeVars, completerVars>>

TypeChar ==
    /\ state # "AssertionError"
    /\ Len(text) < MaxLen
    /\ \E c \in Chars : Validated(Append(text, c))

Backspace ==
    /\ state # "AssertionError"
    /\ text # <<>>
    /\ Validated(SubSeq(text, 1, Len(text) - 1))

Paste ==
    /\ state # "AssertionError"
    /\ \E input \in Pasted : Validated(input)

Fixup ==
    /\ wop = "validate"
    /\ fixed' = fixup(text)
    /\ wop' = "fixup"
    /\ UNCHANGED <<text, state, actions, probeVars, completerVars>>

Revalidate ==
    /\ wop = "fixup"
    /\ state' = validate(fixed, actions).state
    /\ actions' = validate(fixed, actions).actions
    /\ wop' = "revalidate"
    /\ UNCHANGED <<text, fixed, probeVars, completerVars>>

WidgetNext ==
    \/ TypeChar
    \/ Backspace
    \/ Paste
    \/ Fixup
    \/ Revalidate

ValidatorInit ==
    /\ op = "init"
    /\ arg = <<>>
    /\ ret = NoneVal
    /\ log = <<>>
    /\ WidgetInit
    /\ CompleterInit

ValidatorSpec == ValidatorInit /\ [][WidgetNext]_vars

(***************************************************************************)
(* filename_widget.py: PlaceholderCompleter.  model is the string list of  *)
(* the completer's model, path the text splitPath was last given.          *)
(***************************************************************************)
PathChars == {"d", "{", "}"}
Paths == SeqsUpTo(PathChars, MaxPathLen)

\* s.count(c)
Count(s, c) == Cardinality({k \in 1..Len(s) : s[k] = c})

\* splitPath that keeps the options it built
splitPath_keeps(p, m) ==
    IF p # <<>> /\ p[Len(p)] = "{"
    THEN [k \in 1..Len(placeholders) |-> p \o placeholders[k] \o <<"}">>]
    ELSE m

\* PlaceholderCompleter.splitPath(path): the string list of the model afterwards
splitPath(p, m) ==
    IF p # <<>> /\ p[Len(p)] = "{"
    THEN [k \in 1..Len(placeholders) |-> p \o placeholders[k] \o <<"}">>]
    ELSE IF Count(p, "{") = Count(p, "}") THEN <<>>
    ELSE m

SplitPath ==
    \E p \in Paths :
        /\ path' = p
        /\ model' = splitPath(p, model)
        /\ UNCHANGED <<probeVars, widgetVars>>

CompleterSpec == ValidatorInit /\ [][SplitPath]_vars

(***************************************************************************)
(* racal1992.py: Racal1992.read_and_decode.  A reply is the 21 bytes       *)
(* read_bytes(21) returns: a 2-byte type code, a 17-byte number and the    *)
(* line end.                                                               *)
(***************************************************************************)
IntVal(n) == [type |-> "int", n |-> n]
FloatVal(val) == [type |-> "float", val |-> val]
RaiseMsg(e, msg) == [type |-> "raise", exc |-> e, msg |-> msg]

RECURSIVE Pow10(_)
Pow10(n) == IF n = 0 THEN 1 ELSE 10 * Pow10(n - 1)

\* int(num) of a float: the number without its fraction
IntOfFloat(val) ==
    IF val.exp >= 0 THEN val.mant * Pow10(val.exp)
    ELSE IF val.mant >= 0 THEN val.mant \div Pow10(-val.exp)
    ELSE -((-val.mant) \div Pow10(-val.exp))

\* Racal1992.int_types, Racal1992.float_types
int_types == <<<<"R", "S">>, <<"U", "T">>>>
float_types == <<<<"F", "A">>, <<"P", "A">>, <<"C", "K">>>>

\* allowed_types of measured_value
measured_types == <<<<"P", "A">>, <<"F", "A">>, <<"C", "K">>>>

\* read_and_decode that does not look at allowed_types
read_and_decode_unchecked(v, allowed_types) ==
    LET num == ParseFloat(Slice(v, 2, 19))
    IN  IF ~num.ok THEN RaiseMsg("ValueError", "could not convert string to float")
        ELSE IF InList(Slice(v, 0, 2), int_types) THEN IntVal(IntOfFloat(num.val))
        ELSE IF InList(Slice(v, 0, 2), float_types) THEN FloatVal(num.val)
        ELSE RaiseMsg("Exception", "Unsupported return type")

\* Racal1992.read_and_decode(allowed_types) on the bytes v read; no allowed
\* types (None) is the empty list
read_and_decode(v, allowed_types) ==
    LET num == ParseFloat(Slice(v, 2, 19))
    IN  IF ~num.ok THEN RaiseMsg("ValueError", "could not convert string to float")
        ELSE IF allowed_types # <<>> /\ ~InList(Slice(v, 0, 2), allowed_types)
             THEN RaiseMsg("Exception", "Unexpected value type returned")
        ELSE IF InList(Slice(v, 0, 2), int_types) THEN IntVal(IntOfFloat(num.val))
        ELSE IF InList(Slice(v, 0, 2), float_types) THEN FloatVal(num.val)
        ELSE RaiseMsg("Exception", "Unsupported return type")

\* the type codes and numbers of the replies read
TypeCodes == Range(int_types) \cup Range(float_types)
                 \cup {<<"F", "B">>, <<"r", "s">>, <<" ", " ">>}
Zeros(n) == [i \in 1..n |-> "0"]
Numbers ==
    {<<sg>> \o Zeros(8) \o <<d, ".", f, "0", "0", "E", "+", e>> :
        sg \in {"+", "-"}, d \in {"0", "1", "9"}, f \in {"0", "5"}, e \in {"0", "3"}}
    \cup {[i \in 1..17 |-> " "], [i \in 1..17 |-> "?"],
          <<"+">> \o Zeros(12) \o <<".", "E", "+", "0">>}
RacalReplies == {t \o n \o <<"\r", "\n">> : t \in TypeCodes, n \in Numbers}

\* the getters resolution and unit: self.read_and_decode()
ReadAndDecode ==
    /\ op = "init"
    /\ op' = "read_and_decode"
    /\ ret' = read_and_decode(arg, <<>>)
    /\ UNCHANGED <<arg, log, widgetVars, completerVars>>

\* the getter measured_value
MeasuredValue ==
    /\ op = "init"
    /\ op' = "measured_value"
    /\ ret' = read_and_decode(arg, measured_types)
    /\ UNCHANGED <<arg, log, widgetVars, completerVars>>

RacalInit ==
    /\ op = "init"
    /\ arg \in RacalReplies
    /\ ret = NoneVal
    /\ log = <<>>
    /\ WidgetInit
    /\ CompleterInit

RacalNext ==
    \/ ReadAndDecode
    \/ MeasuredValue

RacalSpec == RacalInit /\ [][RacalNext]_vars

(***************************************************************************)
(* Properties of the reply decoder.                                        *)
(***************************************************************************)
ErrorName ==
    (E01 :> "comunication error") @@ (E02 :> "Buffer overflow")
    @@ (E03 :> "Invalid command") @@ (E04 :> "Invalid parameter")
    @@ (E05 :> "Hardware error") @@ (E06 :> "Parity error") @@ (<<>> :> "No reply")

\* the payload of a raw reply: the reply without its 2-character echo
Payload(raw) == From(raw, 2)

\* C1: for each of the six reserved error replies and for the empty reply,
\* proccess_data logs the error named after the reply and hands no record and
\* no value back to its caller: it fails.
C1_ErrorReplyFails ==
    (op = "proccess_data" /\ arg \in ErrorReplies)
        => /\ Msg("error", ErrorName[arg]) \in Range(log)
           /\ ret.type = "raise"

\* C2: for a non-error reply of a 2-character echo and an 8-character body
\* with a mapped unit code, proccess_data returns the record of the first five
\* body characters and the mapped unit.
C2_ShortFormRecord ==
    (/\ op = "proccess_data"
     /\ arg \notin ErrorReplies
     /\ Len(arg) = 10
     /\ Slice(Payload(arg), 5, 8) \in DOMAIN UnitMap)
        => ret = Dict([field |-> Str(Slice(Payload(arg), 0, 5)),
                       unit |-> UnitMap[Slice(Payload(arg), 5, 8)]])

WellFormedLong(b) ==
    /\ Len(b) = 16
    /\ ParseFloat(Slice(b, 0, 5)).ok
    /\ Slice(b, 5, 8) \in DOMAIN UnitMap
    /\ ParseInt(Slice(b, 8, 11)).ok
    /\ b[13] \in DOMAIN BatteryMap

\* C3: for a non-error reply of a 2-character echo and a well-formed
\* 16-character body, proccess_data returns the complete record: value of body
\* characters 0-4, mapped unit, recorder as an integer, overrange exactly when
\* character 11 is O, mapped battery, and the axis letters X, Y, Z whose
\* character 13, 14, 15 is E.
C3_LongFormRecord ==
    (/\ op = "proccess_data"
     /\ arg \notin ErrorReplies
     /\ Len(arg) = 18
     /\ WellFormedLong(Payload(arg)))
        => LET b == Payload(arg)
           IN  /\ ret.type = "dict"
               /\ DOMAIN ret.d = {"field", "unit", "recorder", "overrange", "battery", "axis"}
               /\ ret.d.field = ParseFloat(Slice(b, 0, 5)).val
               /\ ret.d.unit = UnitMap[Slice(b, 5, 8)]
               /\ ret.d.recorder = ParseInt(Slice(b, 8, 11)).val
               /\ ret.d.overrange = (b[12] = "O")
               /\ ret.d.battery = BatteryMap[b[13]]
               /\ ret.d.axis = (IF b[14] = "E" THEN <<"X">> ELSE <<>>)
                               \o (IF b[15] = "E" THEN <<"Y">> ELSE <<>>)
                               \o (IF b[16] = "E" THEN <<"Z">> ELSE <<>>)

\* C4: decoding is all-or-nothing: for a non-error reply proccess_data returns
\* a record or fails, and it fails whenever the payload length is neither 8
\* nor 16 or the unit or battery code is not in its table.
C4_AllOrNothing ==
    (op = "proccess_data" /\ arg \notin ErrorReplies)
        => LET b == Payload(arg)
           IN  /\ ret.type \in {"dict", "raise"}
               /\ (\/ Len(b) \notin {8, 16}
                   \/ Slice(b, 5, 8) \notin DOMAIN UnitMap
                   \/ (Len(b) = 16 /\ b[13] \notin DOMAIN BatteryMap))
                      => ret.type = "raise"

\* the wire code of a human axis string: E at X, Y, Z when the letter occurs
WireOf(s) ==
    <<IF "x" \in Range(s) \/ "X" \in Range(s) THEN "E" ELSE "D",
      IF "y" \in Range(s) \/ "Y" \in Range(s) THEN "E" ELSE "D",
      IF "z" \in Range(s) \/ "Z" \in Range(s) THEN "E" ELSE "D">>

\* the upper-case letters of a human axis string in X, Y, Z order
UpperXYZ(s) ==
    SelectSeq(<<"X", "Y", "Z">>,
              LAMBDA c : (c = "X" /\ Range(s) \cap {"x", "X"} # {})
                         \/ (c = "Y" /\ Range(s) \cap {"y", "Y"} # {})
                         \/ (c = "Z" /\ Range(s) \cap {"z", "Z"} # {}))

\* the long-form bodies whose axis field is w
BodiesWithAxis(w) == {b \in LongBodies : SubSeq(b, 14, 16) = w}

\* C5, as claimed: process_axis of a human axis string of length at most 3 is
\* its wire code w, process_axis of a 16-character long-form reply whose
\* characters 13-15 are w gives back the upper-case letters, and a string
\* neither of length at most 3 nor of length 16 raises.
C5_AxisRoundTripOn16 ==
    op = "process_axis"
        => /\ Len(arg) <= 3
                => /\ ret = Str(WireOf(arg))
                   /\ \A b \in BodiesWithAxis(WireOf(arg)) :
                          process_axis(b).ret = Str(UpperXYZ(arg))
           /\ (Len(arg) > 3 /\ Len(arg) # 16) => ret.type = "raise"

\* C5, amended: process_axis of a human axis string of length at most 3 is its
\* wire code w; process_axis of an 18-character raw long-form reply (2-character
\* echo, then the 16-character payload) whose payload characters 13-15 are w
\* gives back the upper-case letters in X, Y, Z order; every other string
\* longer than 3 raises ValueError.
C5_AxisRoundTrip ==
    op = "process_axis"
        => /\ Len(arg) <= 3
                => /\ ret = Str(WireOf(arg))
                   /\ \A b \in BodiesWithAxis(WireOf(arg)) :
                          process_axis(Echo(2) \o b).ret = Str(UpperXYZ(arg))
           /\ Len(arg) = 18
                => \A s \in HumanAxes :
                       (Len(s) <= 3 /\ WireOf(s) = SubSeq(arg, 16, 18))
                           => ret = Str(UpperXYZ(s))
           /\ (Len(arg) > 3 /\ Len(arg) # 18) => ret = Raise("ValueError")

C5_Witness ==
    /\ op = "process_axis"
    /\ arg = <<"Z", "x">>
    /\ ret = Str(<<"E", "D", "E">>)
    /\ \E b \in BodiesWithAxis(<<"E", "D", "E">>) :
           process_axis(Echo(2) \o b).ret = Str(<<"X", "Z">>)

(***************************************************************************)
(* Properties of the filename validator and completer.                     *)
(***************************************************************************)
\* the input validate was last called with
LastInput == IF wop = "revalidate" THEN fixed ELSE text

\* the positions of s inside its complete placeholder tokens, from index i
RECURSIVE FullCover(_, _)
FullCover(s, i) ==
    IF i > Len(s) THEN {}
    ELSE IF s[i] = "{" /\ FullEnd(s, i) # 0
         THEN (i..FullEnd(s, i)) \cup FullCover(s, FullEnd(s, i) + 1)
    ELSE FullCover(s, i + 1)

\* s ends in an unterminated token: an opening brace with no brace after it
EndsUnterminated(s) ==
    \E i \in 1..Len(s) : s[i] = "{" /\ \A j \in (i + 1)..Len(s) : s[j] \notin Braces

\* the positions of s inside its trailing unterminated token
HalfCover(s) ==
    {i \in 1..Len(s) : \E h \in 1..i :
        s[h] = "{" /\ \A j \in (h + 1)..Len(s) : s[j] \notin Braces}

\* the characters of s outside its complete tokens and its trailing token
OutsideChars(s) == {s[i] : i \in (1..Len(s)) \ (FullCover(s, 1) \cup HalfCover(s))}

\* C6: an input with one of < > : " / \ | ? * { } outside its complete tokens
\* and its trailing unterminated token is Invalid.
C6_DeniedOutsideInvalid ==
    wop # "init"
        => (OutsideChars(LastInput) \cap Denied # {} => state = "Invalid")

\* the filesystem-safety test of validate
PassesSafetyTest(s) == valid_filename(half_sub(full_sub(s, plchldr_), plchldr))

\* C7: an input that passes the safety test and ends in an unterminated token
\* is Intermediate, fixup appends exactly one closing brace to it, and the
\* fixed-up text is Acceptable; fixup leaves every other input unchanged, and
\* fixup of a fixed-up text changes nothing.
C7_FixupCloses ==
    /\ (wop \in {"validate", "fixup"} /\ PassesSafetyTest(text) /\ EndsUnterminated(text))
            => state = "Intermediate"
    /\ wop \in {"fixup", "revalidate"}
            => /\ fixed = IF EndsUnterminated(text) THEN text \o <<"}">> ELSE text
               /\ fixup(fixed) = fixed
    /\ (wop = "revalidate" /\ PassesSafetyTest(text) /\ EndsUnterminated(text))
            => state = "Acceptable"

C7_Witness ==
    /\ wop = "revalidate"
    /\ text = <<"d", "{", "d">>
    /\ fixed = <<"d", "{", "d", "}">>
    /\ state = "Acceptable"

\* the names (the text before ":") of the complete tokens of s not whitelisted
UnrecognizedNames(s) ==
    SelectSeq([k \in 1..Len(full_findall(s)) |-> full_findall(s)[k][1]],
              LAMBDA n : \A k \in 1..Len(placeholders) : placeholders[k] # n)

\* every brace of s is in a complete token and no denied character is outside
ClosedAndSafe(s) == {s[i] : i \in (1..Len(s)) \ FullCover(s, 1)} \cap Denied = {}

\* the pieces of s between the elements equal to sep
RECURSIVE SplitOn(_, _)
SplitOn(s, sep) ==
    IF \E k \in 1..Len(s) : s[k] = sep
    THEN LET k == FirstFrom(s, 1, {sep})
         IN  <<SubSeq(s, 1, k - 1)>> \o SplitOn(SubSeq(s, k + 1, Len(s)), sep)
    ELSE <<s>>

\* the names a warning tool tip lists
ListedNames(tip) ==
    SplitOn(SubSeq(tip, FirstFrom(tip, 1, {" - '"}) + 1, FirstFrom(tip, 1, {"'."}) - 1),
            "',<br/> - '")

\* C8: a filesystem-safe input with all braces closed is Acceptable whatever
\* its token names are; the warning is there exactly when a complete token's
\* name is not whitelisted, and it names exactly those names, whatever the
\* format specifiers are.
C8_UnknownNamesOnlyWarn ==
    wop # "init"
        => /\ ClosedAndSafe(LastInput) => state = "Acceptable"
           /\ (actions # <<>>) <=> (UnrecognizedNames(LastInput) # <<>>)
           /\ actions # <<>>
                => ListedNames(actions[1].toolTip) = UnrecognizedNames(LastInput)

C8_Witness ==
    /\ wop = "validate"
    /\ text = <<"{", "d", "d", "}">>
    /\ state = "Acceptable"
    /\ Len(actions) = 1
    /\ ListedNames(actions[1].toolTip) = <<<<"d", "d">>>>

\* the braces of s are balanced: none closes what is not open, none stays open
Balanced(s) ==
    /\ Count(s, "{") = Count(s, "}")
    /\ \A k \in 1..Len(s) :
           Count(SubSeq(s, 1, k), "{") >= Count(SubSeq(s, 1, k), "}")

\* C9: after splitPath(text), when text ends with an open brace the suggestions
\* are exactly text + name + "}" for each whitelisted name, and when the braces
\* of text are balanced there are none.
C9_Suggestions ==
    /\ (path # <<>> /\ path[Len(path)] = "{")
            => /\ Len(model) = Len(placeholders)
               /\ \A k \in 1..Len(placeholders) :
                      model[k] = path \o placeholders[k] \o <<"}">>
    /\ Balanced(path) => model = <<>>

C9_Witness ==
    /\ path = <<"d", "{">>
    /\ model = <<<<"d", "{", "d", "}">>, <<"d", "{", "t", "}">>>>

\* C10: from a line edit without actions, after any validate calls the line
\* edit has at most one action, has one exactly when the input last validated
\* holds a complete token with a name that is not whitelisted, and the
\* assertion "More than 1 action defined" never fails.
C10_OneWarningAction ==
    /\ Len(actions) <= 1
    /\ state # "AssertionError"
    /\ wop # "init"
            => (Len(actions) = 1
                    <=> \E k \in 1..Len(full_findall(LastInput)) :
                            ~InList(full_findall(LastInput)[k][1], placeholders))
    /\ wop = "init" => actions = <<>>

C10_Witness ==
    /\ wop = "validate"
    /\ text = <<"{", "}", "{", "}">>
    /\ Len(actions) = 1

\* index of the last open brace of s, 0 when it has none
LastBrace(s) ==
    IF \E k \in 1..Len(s) : s[k] = "{"
    THEN CHOOSE k \in 1..Len(s) :
             s[k] = "{" /\ \A j \in (k + 1)..Len(s) : s[j] # "{"
    ELSE 0

\* C12: after any sequence of splitPath calls, whenever the suggestion list is
\* not empty every suggestion begins with the text passed last, up to and
\* including its last open brace; suggestions built for an earlier, different
\* text do not remain in the list.  A text without an open brace has the
\* empty text as that beginning.
C12_SuggestionsCurrent ==
    model # <<>>
        => \A k \in 1..Len(model) :
               StartsAt(model[k], SubSeq(path, 1, LastBrace(path)), 1)

(***************************************************************************)
(* The status check of the field probe against its long-form decoder.      *)
(***************************************************************************)
\* the record was logged by the call
Logged(level, msg) == Msg(level, msg) \in Range(log)

\* payload character k, counted from 0 as the decoder counts it
PayloadChar(raw, k) == Payload(raw)[k + 1]

\* C13: for every 18-character raw long-form reply check_get_errors reports
\* "Overrange" exactly when the overrange field (payload character 11) is "O",
\* "Low battery" exactly when the battery field (payload character 12) is "W",
\* and "Battery failure" exactly when the battery field is "F".
C13_StatusLogMatchesDecoder ==
    (op = "check_get_errors" /\ Len(arg) = 18)
        => /\ Logged("error", "Overrange") <=> PayloadChar(arg, 11) = "O"
           /\ Logged("warning", "Low battery") <=> PayloadChar(arg, 12) = "W"
           /\ Logged("error", "Battery failure") <=> PayloadChar(arg, 12) = "F"

\* the part of C13 the code keeps: the overrange and low battery reports
C13_OverrangeAndLowBattery ==
    (op = "check_get_errors" /\ Len(arg) = 18)
        => /\ Logged("error", "Overrange") <=> PayloadChar(arg, 11) = "O"
           /\ Logged("warning", "Low battery") <=> PayloadChar(arg, 12) = "W"

(***************************************************************************)
(* Properties of the Racal-Dana 1992 reply decoder.                        *)
(***************************************************************************)
TypeOf(v) == Slice(v, 0, 2)

\* the number field of a reply reads as a number
NumberReads(v) == ParseFloat(Slice(v, 2, 19)).ok

Abs(n) == IF n < 0 THEN -n ELSE n

\* n is the number val without its fraction
IsIntegerPart(n, val) ==
    IF val.exp >= 0 THEN n = val.mant * Pow10(val.exp)
    ELSE /\ Abs(n) * Pow10(-val.exp) <= Abs(val.mant)
         /\ Abs(val.mant) < (Abs(n) + 1) * Pow10(-val.exp)
         /\ (n > 0 => val.mant > 0)
         /\ (n < 0 => val.mant < 0)

====
